---------------------------- MODULE Spec2Model ----------------------------
(***************************************************************************)
(* Model of the quiz backend: the question store (models.py), the two      *)
(* endpoints of main.py (GET /questions/, POST /submit/), the boundary     *)
(* validation of schemas.py and the grading pass of crud.calculate_score.  *)
(*                                                                         *)
(* Optional values (Python's None) are sets of at most one element:        *)
(* {} is None and {v} is the value v.                                      *)
(***************************************************************************)
EXTENDS Integers, Sequences, FiniteSets, TLC

(***************************************************************************)
(* Bounds of the model.                                                    *)
(***************************************************************************)
MaxQuestions == 2   \* rows of the questions table
MaxChoices == 3     \* rows of the choices table
MaxAnswers == 2     \* answers in one submission

\* the ids a table may hold and a submission may name; a table need not hold
\* every id, so a submission can name ids unknown to the store
QuestionIds == 1..MaxQuestions
ChoiceIds == 1..MaxChoices

\* the text columns: rows of different ids carry different texts as far as the
\* tables reach, and none is "Unanswered" or empty
QuestionTexts == <<"Question 1", "Question 2", "Question 3", "Question 4">>
ChoiceTexts == <<"Choice 1", "Choice 2", "Choice 3", "Choice 4", "Choice 5">>

QuestionTextOf(id) == QuestionTexts[((id - 1) % Len(QuestionTexts)) + 1]
ChoiceTextOf(id) == ChoiceTexts[((id - 1) % Len(ChoiceTexts)) + 1]

None == {}
Some(v) == {v}

SeqsUpTo(S, n) == UNION {[1..k -> S] : k \in 0..n}

(***************************************************************************)
(* models.py: the two tables.  A table is the sequence of its rows in the  *)
(* order a query without ORDER BY returns them; the id columns are primary *)
(* keys.  question_id of a choice is a foreign key that nothing enforces:  *)
(* a choice may name a question that has no row.                           *)
(***************************************************************************)
Question == {[id |-> q, text |-> QuestionTextOf(q)] : q \in QuestionIds}

Choice == {[id |-> c, text |-> ChoiceTextOf(c), is_correct |-> f, question_id |-> q] :
              c \in ChoiceIds, f \in BOOLEAN, q \in QuestionIds}

\* the tables of n rows out of a set of rows, no id twice
RECURSIVE TablesOfLen(_, _)
TablesOfLen(rows, n) ==
    IF n = 0 THEN {<<>>}
    ELSE UNION {{Append(t, r) :
                    r \in {x \in rows : \A i \in DOMAIN t : x.id # t[i].id}} :
                t \in TablesOfLen(rows, n - 1)}

QuestionTables == UNION {TablesOfLen(Question, n) : n \in 0..MaxQuestions}
ChoiceTables == UNION {TablesOfLen(Choice, n) : n \in 0..MaxChoices}

Stores == [questions : QuestionTables, choices : ChoiceTables]

(***************************************************************************)
(* The JSON bodies a client may post to /submit/.                          *)
(***************************************************************************)
FullAnswers == [question_id : QuestionIds, choice_id : ChoiceIds]
PartialAnswers == {[question_id |-> 1], [choice_id |-> 1]}
JsonAnswers == FullAnswers \cup PartialAnswers

Payloads == {[answers |-> a] : a \in SeqsUpTo(JsonAnswers, MaxAnswers)}
               \cup {[invalid |-> "payload"]}

VARIABLES
    store,             \* the questions and choices tables
    pc,                \* "idle" | "grading" | "done"
    request,           \* the request being served, None before the first
    attempt,           \* 1 for a first submission, 2 for its repetition
    calls,             \* calculate_score invocations of the current request
    reads,             \* get_questions queries of the current request
    score,             \* calculate_score: score
    all_questions,     \* calculate_score: all_questions
    user_answers_map,  \* calculate_score: user_answers_map
    answer_key,        \* calculate_score: answer_key
    detailed_results,  \* calculate_score: detailed_results
    response,          \* the response sent, None while there is none
    previous,          \* snapshot and result of the first attempt
    db_error,          \* the query of the current request raised
    store_read,        \* the tables as they were when the current request queried them
    seeding,           \* seed_database: "idle" | "cleared", and the runs completed
    peer               \* a second submit_quiz call in progress: its own frame

vars == <<store, pc, request, attempt, calls, reads, score, all_questions,
          user_answers_map, answer_key, detailed_results, response, previous,
          db_error, store_read, seeding, peer>>

locals == <<score, all_questions, user_answers_map, answer_key, detailed_results>>

\* what the serving of one request leaves alone: the seeding and the other call
others == <<seeding, peer>>


(***************************************************************************)
(* schemas.py: boundary validation of a submission (UserAnswer and         *)
(* AnswerPayload have only required fields) and the parsed model object.   *)
(***************************************************************************)
UserAnswerFieldsOptional(a) == TRUE

ValidUserAnswer(a) == {"question_id", "choice_id"} \subseteq DOMAIN a

ValidAnswerPayload(json) ==
    /\ "answers" \in DOMAIN json
    /\ \A i \in DOMAIN json.answers : ValidUserAnswer(json.answers[i])

UserAnswer(a) == [question_id |-> a.question_id, choice_id |-> a.choice_id]

AnswerPayload(json) ==
    [answers |-> [i \in DOMAIN json.answers |-> UserAnswer(json.answers[i])]]

(***************************************************************************)
(* schemas.py: the response models of GET /questions/.  schemas.Choice has *)
(* the fields text and id, schemas.Question the fields text, id, choices.  *)
(***************************************************************************)
ChoiceWithFlag(c) == [id |-> c.id, text |-> c.text, is_correct |-> c.is_correct]

ChoiceSchema(c) == [id |-> c.id, text |-> c.text]

QuestionSchema(q) ==
    [id |-> q.id, text |-> q.text,
     choices |-> [i \in DOMAIN q.choices |-> ChoiceSchema(q.choices[i])]]

QuestionListSchema(qs) == [i \in DOMAIN qs |-> QuestionSchema(qs[i])]

(***************************************************************************)
(* crud.py                                                                 *)
(***************************************************************************)
\* every row of the choices table, whatever its question_id
ChoicesLoadedUnfiltered(db, question) == db.choices

\* get_questions: every question row, each loaded with the choice rows that
\* name it (joinedload of Question.choices), in retrieval order
ChoicesLoaded(db, question) ==
    SelectSeq(db.choices, LAMBDA c : c.question_id = question.id)

get_questions(db) ==
    [i \in DOMAIN db.questions |->
        [id |-> db.questions[i].id,
         text |-> db.questions[i].text,
         choices |-> ChoicesLoaded(db, db.questions[i])]]

\* the outcomes of the query: the rows, or an exception of the database layer
\* after some of the rows
Query(db) ==
    {[ok |-> TRUE, rows |-> get_questions(db)]}
        \cup {[ok |-> FALSE, rows |-> SubSeq(get_questions(db), 1, k)] :
                 k \in 0..Len(db.questions)}

\* all_questions = get_questions(db) stands in no try block: an exception of
\* the query leaves calculate_score and submit_quiz
QueryErrorSwallowed(outcome) == FALSE

QueryRaises(outcome) == ~outcome.ok

\* dict.get(k): None when the key is absent
Get(d, k) == IF k \in DOMAIN d THEN Some(d[k]) ELSE None

\* the value of an optional that is not None
Value(optional) == CHOOSE v \in optional : TRUE

\* an earlier entry is kept when a later one has the same key
RECURSIVE UserAnswersMapFirstWins(_, _)
UserAnswersMapFirstWins(answers, n) ==
    IF n = 0 THEN <<>>
    ELSE UserAnswersMapFirstWins(answers, n - 1)
            @@ (answers[n].question_id :> answers[n].choice_id)

\* {answer.question_id: answer.choice_id for answer in answers}: a later
\* entry replaces an earlier one with the same key
RECURSIVE UserAnswersMapUpTo(_, _)
UserAnswersMapUpTo(answers, n) ==
    IF n = 0 THEN <<>>
    ELSE (answers[n].question_id :> answers[n].choice_id)
            @@ UserAnswersMapUpTo(answers, n - 1)

UserAnswersMap(answers) == UserAnswersMapUpTo(answers, Len(answers))

\* for choice in question.choices: if choice.is_correct: ...; break
RECURSIVE LastCorrectFrom(_, _)
LastCorrectFrom(choices, i) ==
    IF i > Len(choices) THEN None
    ELSE LET later == LastCorrectFrom(choices, i + 1)
         IN  IF later # None THEN later
             ELSE IF choices[i].is_correct THEN Some(choices[i].id) ELSE None

RECURSIVE FirstCorrectFrom(_, _)
FirstCorrectFrom(choices, i) ==
    IF i > Len(choices) THEN None
    ELSE IF choices[i].is_correct THEN Some(choices[i].id)
    ELSE FirstCorrectFrom(choices, i + 1)

\* answer_key[question.id] = choice.id, for the questions with a flagged choice
RECURSIVE AnswerKeyUpTo(_, _)
AnswerKeyUpTo(questions, n) ==
    IF n = 0 THEN <<>>
    ELSE LET key == AnswerKeyUpTo(questions, n - 1)
             found == FirstCorrectFrom(questions[n].choices, 1)
         IN  IF found # None THEN (questions[n].id :> Value(found)) @@ key ELSE key

AnswerKey(questions) == AnswerKeyUpTo(questions, Len(questions))

\* (user_choice_id is not None) and (user_choice_id == correct_choice_id)
IsCorrectNoneCheckDropped(user_choice_id, correct_choice_id) ==
    user_choice_id = correct_choice_id

IsCorrect(user_choice_id, correct_choice_id) ==
    (user_choice_id # None) /\ (user_choice_id = correct_choice_id)

\* if is_correct: score += 1
ScoreUnconditional(s, is_correct) == s + 1

\* score = 1 in place of score += 1
ScoreOverwritten(s, is_correct) == IF is_correct THEN 1 ELSE s

ScoreAfter(s, is_correct) == IF is_correct THEN s + 1 ELSE s

\* for choice in question.choices: if choice.id == wanted: text = choice.text
RECURSIVE TextOfChoiceUpTo(_, _, _, _)
TextOfChoiceUpTo(choices, wanted, default, n) ==
    IF n = 0 THEN default
    ELSE IF Some(choices[n].id) = wanted THEN choices[n].text
    ELSE TextOfChoiceUpTo(choices, wanted, default, n - 1)

UserAnswerTextDefaultSwapped(question, user_choice_id) ==
    TextOfChoiceUpTo(question.choices, user_choice_id, "", Len(question.choices))

UserAnswerText(question, user_choice_id) ==
    TextOfChoiceUpTo(question.choices, user_choice_id, "Unanswered",
                     Len(question.choices))

\* Python's None where a text is expected
NoneText == "<None>"

CorrectAnswerTextDefaultNone(question, correct_choice_id) ==
    TextOfChoiceUpTo(question.choices, correct_choice_id, NoneText,
                     Len(question.choices))

CorrectAnswerText(question, correct_choice_id) ==
    TextOfChoiceUpTo(question.choices, correct_choice_id, "", Len(question.choices))

\* schemas.QuestionResult: question_text and correct_answer_text are str and
\* reject None with a ValidationError, user_answer_text is Optional[str]
QuestionResultRaises(result) ==
    \/ result.question_text = NoneText
    \/ result.correct_answer_text = NoneText

\* one pass of the grading loop: the QuestionResult appended for a question
QuestionResultTextsSwapped(question, answers_map, key) ==
    LET user_choice_id == Get(answers_map, question.id)
        correct_choice_id == Get(key, question.id)
    IN  [question_id |-> question.id,
         question_text |-> question.text,
         user_answer_text |-> CorrectAnswerText(question, correct_choice_id),
         correct_answer_text |-> UserAnswerText(question, user_choice_id),
         is_correct |-> IsCorrect(user_choice_id, correct_choice_id)]

QuestionResult(question, answers_map, key) ==
    LET user_choice_id == Get(answers_map, question.id)
        correct_choice_id == Get(key, question.id)
    IN  [question_id |-> question.id,
         question_text |-> question.text,
         user_answer_text |-> UserAnswerText(question, user_choice_id),
         correct_answer_text |-> CorrectAnswerText(question, correct_choice_id),
         is_correct |-> IsCorrect(user_choice_id, correct_choice_id)]

\* the grading loop over all_questions, from the score it starts with
RECURSIVE GradeLoopAnsweredOnly(_, _, _, _, _)
GradeLoopAnsweredOnly(questions, answers_map, key, start, n) ==
    IF n = 0 THEN [score |-> start, detailed_results |-> <<>>]
    ELSE LET before == GradeLoopAnsweredOnly(questions, answers_map, key, start, n - 1)
             result == QuestionResult(questions[n], answers_map, key)
         IN  IF questions[n].id \in DOMAIN answers_map
             THEN [score |-> ScoreAfter(before.score, result.is_correct),
                   detailed_results |-> Append(before.detailed_results, result)]
             ELSE before

\* an answer whose question_id is not among the questions counts in the score
RECURSIVE GradeLoopUnknownCounted(_, _, _, _, _)
GradeLoopUnknownCounted(questions, answers_map, key, start, n) ==
    IF n = 0
    THEN [score |-> start + Cardinality({k \in DOMAIN answers_map :
                                \A i \in DOMAIN questions : questions[i].id # k}),
          detailed_results |-> <<>>]
    ELSE LET before == GradeLoopUnknownCounted(questions, answers_map, key, start, n - 1)
             result == QuestionResult(questions[n], answers_map, key)
         IN  [score |-> ScoreAfter(before.score, result.is_correct),
              detailed_results |-> Append(before.detailed_results, result)]

RECURSIVE GradeLoop(_, _, _, _, _)
GradeLoop(questions, answers_map, key, start, n) ==
    IF n = 0 THEN [score |-> start, detailed_results |-> <<>>]
    ELSE LET before == GradeLoop(questions, answers_map, key, start, n - 1)
             result == QuestionResult(questions[n], answers_map, key)
         IN  [score |-> ScoreAfter(before.score, result.is_correct),
              detailed_results |-> Append(before.detailed_results, result)]

\* schemas.QuizResult(score=score, total=len(all_questions), results=...)
QuizResultTotalAtLeastOne(final_score, questions, results) ==
    [score |-> final_score,
     total |-> IF Len(questions) = 0 THEN 1 ELSE Len(questions),
     results |-> results]

QuizResult(final_score, questions, results) ==
    [score |-> final_score, total |-> Len(questions), results |-> results]

(***************************************************************************)
(* The state after start-up: any store, no request served yet.             *)
(***************************************************************************)
Init ==
    /\ store \in Stores
    /\ pc = "idle"
    /\ request = None
    /\ attempt = 0
    /\ calls = 0
    /\ reads = 0
    /\ score = 0
    /\ all_questions = <<>>
    /\ user_answers_map = <<>>
    /\ answer_key = <<>>
    /\ detailed_results = <<>>
    /\ response = None
    /\ previous = None
    /\ db_error = FALSE
    /\ store_read = None
    /\ seeding = [pc |-> "idle", runs |-> 0]
    /\ peer = [pc |-> "idle", json |-> None, score |-> 0, all_questions |-> <<>>,
               response |-> None]

(***************************************************************************)
(* main.py read_questions: GET /questions/ through the response model; an   *)
(* exception of the query is answered 500.                                 *)
(***************************************************************************)
ReadQuestions ==
    /\ pc = "idle"
    /\ request' = Some([route |-> "/questions/"])
    /\ reads' = 1
    /\ store_read' = Some(store)
    /\ \E outcome \in Query(store) :
          /\ db_error' = ~outcome.ok
          /\ response' =
                IF QueryRaises(outcome)
                THEN Some([status |-> 500, body |-> [detail |-> "Internal Server Error"]])
                ELSE Some([status |-> 200, body |-> QuestionListSchema(outcome.rows)])
    /\ pc' = "done"
    /\ UNCHANGED <<store, attempt, calls, locals, previous, others>>

(***************************************************************************)
(* main.py submit_quiz: POST /submit/.  The body is validated against      *)
(* AnswerPayload before the handler runs; a body that fails is answered    *)
(* 422 and the handler is not entered.  Otherwise the handler calls        *)
(* calculate_score, which sets score and queries the store; an exception   *)
(* of the query leaves both and is answered 500.                           *)
(***************************************************************************)
ScoreCarriedOver == score

ScoreAtEntry == 0

SubmitQuiz(json) ==
    /\ request' = Some([route |-> "/submit/", json |-> json])
    /\ IF ValidAnswerPayload(json)
       THEN /\ calls' = 1
            /\ score' = ScoreAtEntry
            /\ reads' = 1
            /\ store_read' = Some(store)
            /\ \E outcome \in Query(store) :
                  /\ db_error' = ~outcome.ok
                  /\ IF QueryRaises(outcome)
                     THEN /\ response' = Some([status |-> 500,
                                               body |-> [detail |-> "Internal Server Error"]])
                          /\ pc' = "done"
                          /\ UNCHANGED all_questions
                     ELSE /\ all_questions' = outcome.rows
                          /\ response' = None
                          /\ pc' = "grading"
            /\ UNCHANGED <<user_answers_map, answer_key, detailed_results>>
       ELSE /\ calls' = 0
            /\ reads' = 0
            /\ response' = Some([status |-> 422,
                                 body |-> [detail |-> "validation error"]])
            /\ pc' = "done"
            /\ UNCHANGED <<locals, db_error, store_read>>
    /\ UNCHANGED <<store, others>>

\* a client posts a body
Submit ==
    /\ pc = "idle"
    /\ \E json \in Payloads :
          /\ attempt' = 1
          /\ previous' = None
          /\ SubmitQuiz(json)

\* a client that was graded posts the same body once more
Resubmit ==
    /\ pc = "done"
    /\ attempt = 1
    /\ Value(request).route = "/submit/"
    /\ Value(response).status = 200
    /\ attempt' = 2
    /\ previous' = Some([snapshot |-> all_questions, result |-> Value(response).body])
    /\ SubmitQuiz(Value(request).json)

(***************************************************************************)
(* crud.py calculate_score after the query: the two lookups, the grading   *)
(* loop and the QuizResult, then submit_quiz's return of it.  A            *)
(* QuestionResult that fails its validation raises and is answered 500.    *)
(***************************************************************************)
\* questions: the rows the loops run over; db: the tables as the call leaves them
GradeOver(questions, db) ==
    /\ pc = "grading"
    /\ LET submission == AnswerPayload(Value(request).json)
           answers_map == UserAnswersMap(submission.answers)
           key == AnswerKey(questions)
           graded == GradeLoop(questions, answers_map, key, score, Len(questions))
           results == Some(QuizResult(graded.score, questions,
                                      graded.detailed_results))
       IN  /\ user_answers_map' = answers_map
           /\ answer_key' = key
           /\ score' = graded.score
           /\ detailed_results' = graded.detailed_results
           /\ response' =
                 IF \E i \in DOMAIN graded.detailed_results :
                       QuestionResultRaises(graded.detailed_results[i])
                 THEN Some([status |-> 500, body |-> [detail |-> "Internal Server Error"]])
                 ELSE IF results = None
                 THEN Some([status |-> 400,
                            body |-> [detail |-> "Error calculating score."]])
                 ELSE Some([status |-> 200, body |-> Value(results)])
    /\ pc' = "done"
    /\ store' = db
    /\ UNCHANGED <<request, attempt, calls, reads, all_questions, previous,
                   db_error, store_read, others>>

\* the loops query the tables again instead of using the rows already loaded
GradeRereading == GradeOver(get_questions(store), store)

\* the call deletes the choices it has graded
GradeDeleting == GradeOver(all_questions, [store EXCEPT !.choices = <<>>])

\* the loops run over all_questions, the rows of the one query, and the call
\* issues no add, delete or commit
Grade == GradeOver(all_questions, store)

(***************************************************************************)
(* seed.py seed_database, run by a process of its own (python -m, or a     *)
(* test fixture) on the same database: lines 15-17 delete every row and    *)
(* commit, lines 19-77 insert questions_data and commit.                   *)
(***************************************************************************)
MaxSeedRuns == 2

questions_data ==
    << [text |-> "What is the primary web framework used in this application's backend?",
        choices |-> << [text |-> "Django", is_correct |-> FALSE],
                       [text |-> "FastAPI", is_correct |-> TRUE],
                       [text |-> "Flask", is_correct |-> FALSE] >>],
       [text |-> "Which library is used for data validation and settings management in FastAPI?",
        choices |-> << [text |-> "Marshmallow", is_correct |-> FALSE],
                       [text |-> "Pydantic", is_correct |-> TRUE],
                       [text |-> "Voluptuous", is_correct |-> FALSE] >>],
       [text |-> "What does ASGI stand for in the context of Python web servers like Uvicorn?",
        choices |-> << [text |-> "Asynchronous Server Gateway Interface", is_correct |-> TRUE],
                       [text |-> "Automated Server Gateway Interaction", is_correct |-> FALSE],
                       [text |-> "Asynchronous Standard Gateway Interface", is_correct |-> FALSE] >>],
       [text |-> "Which frontend framework is this project planned to use?",
        choices |-> << [text |-> "Next.js", is_correct |-> TRUE],
                       [text |-> "React (CRA)", is_correct |-> FALSE],
                       [text |-> "Vue.js", is_correct |-> FALSE] >>],
       [text |-> "What type of database is being used in this project?",
        choices |-> << [text |-> "PostgreSQL", is_correct |-> FALSE],
                       [text |-> "MySQL", is_correct |-> FALSE],
                       [text |-> "SQLite", is_correct |-> TRUE] >>] >>

\* the id an inserted row gets: one more than the largest in the table
RECURSIVE MaxIdUpTo(_, _)
MaxIdUpTo(table, n) ==
    IF n = 0 THEN 0
    ELSE LET earlier == MaxIdUpTo(table, n - 1)
         IN  IF table[n].id > earlier THEN table[n].id ELSE earlier

NextId(table) == MaxIdUpTo(table, Len(table)) + 1

\* lines 69-75: the first n choices of one question, added in order
RECURSIVE ChoicesAdded(_, _, _, _)
ChoicesAdded(table, choices, question_id, n) ==
    IF n = 0 THEN table
    ELSE LET before == ChoicesAdded(table, choices, question_id, n - 1)
         IN  Append(before, [id |-> NextId(before),
                             text |-> choices[n].text,
                             is_correct |-> choices[n].is_correct,
                             question_id |-> question_id])

\* lines 65-75: the first n questions of questions_data, each with its choices
RECURSIVE QuestionsAdded(_, _)
QuestionsAdded(db, n) ==
    IF n = 0 THEN db
    ELSE LET before == QuestionsAdded(db, n - 1)
             q_data == questions_data[n]
             question == [id |-> NextId(before.questions), text |-> q_data.text]
         IN  [questions |-> Append(before.questions, question),
              choices |-> ChoicesAdded(before.choices, q_data.choices,
                                       question.id, Len(q_data.choices))]

\* lines 15-16 without the second delete
ClearedChoicesOnly(db) == [questions |-> db.questions, choices |-> <<>>]

\* lines 15-16: both tables emptied
Cleared(db) == [questions |-> <<>>, choices |-> <<>>]

SeedClear ==
    /\ seeding.pc = "idle"
    /\ seeding.runs < MaxSeedRuns
    /\ store' = Cleared(store)
    /\ seeding' = [seeding EXCEPT !.pc = "cleared"]
    /\ UNCHANGED <<pc, request, attempt, calls, reads, locals, response, previous,
                   db_error, store_read, peer>>

SeedInsert ==
    /\ seeding.pc = "cleared"
    /\ store' = QuestionsAdded(store, Len(questions_data))
    /\ seeding' = [pc |-> "idle", runs |-> seeding.runs + 1]
    /\ UNCHANGED <<pc, request, attempt, calls, reads, locals, response, previous,
                   db_error, store_read, peer>>

Next == ReadQuestions \/ Submit \/ Resubmit \/ Grade

Spec == Init /\ [][Next]_vars

\* a table whose rows come in ascending id: the order of a scan by rowid
InIdOrder(table) ==
    \A i \in DOMAIN table : \A j \in DOMAIN table : i < j => table[i].id < table[j].id

InitSeed ==
    /\ Init
    /\ InIdOrder(store.questions)
    /\ InIdOrder(store.choices)

(***************************************************************************)
(* A second POST /submit/ served while the first is in progress.  The      *)
(* server runs each call of the handler with a session and locals of its   *)
(* own: peer is that call's frame, and the two share the store only.       *)
(***************************************************************************)
\* the bodies the second client posts
PeerPayloads == {[answers |-> a] : a \in SeqsUpTo(FullAnswers, 1)}

\* the second call counts in the score of the first
PeerScoreShared == score

\* score is a local of the call (crud.py 17)
PeerScore == peer.score

PeerSubmit ==
    /\ peer.pc = "idle"
    /\ \E json \in PeerPayloads : \E outcome \in Query(store) :
          peer' = IF QueryRaises(outcome)
                  THEN [pc |-> "done", json |-> Some(json), score |-> ScoreAtEntry,
                        all_questions |-> <<>>,
                        response |-> Some([status |-> 500,
                                           body |-> [detail |-> "Internal Server Error"]])]
                  ELSE [pc |-> "grading", json |-> Some(json), score |-> ScoreAtEntry,
                        all_questions |-> outcome.rows, response |-> None]
    /\ UNCHANGED <<store, pc, request, attempt, calls, reads, locals, response,
                   previous, db_error, store_read, seeding>>

PeerGrade ==
    /\ peer.pc = "grading"
    /\ LET submission == AnswerPayload(Value(peer.json))
           graded == GradeLoop(peer.all_questions,
                               UserAnswersMap(submission.answers),
                               AnswerKey(peer.all_questions),
                               PeerScore, Len(peer.all_questions))
       IN  peer' = [peer EXCEPT
                      !.pc = "done",
                      !.score = graded.score,
                      !.response =
                          Some([status |-> 200,
                                body |-> QuizResult(graded.score, peer.all_questions,
                                                    graded.detailed_results)])]
    /\ UNCHANGED <<store, pc, request, attempt, calls, reads, locals, response,
                   previous, db_error, store_read, seeding>>

NextConcurrent == Submit \/ Grade \/ PeerSubmit \/ PeerGrade

SpecConcurrent == InitSeed /\ [][NextConcurrent]_vars

\* the requests, with seed_database running beside them
NextSeed == Next \/ SeedClear \/ SeedInsert

SpecSeed == InitSeed /\ [][NextSeed]_vars

(***************************************************************************)
(* Vocabulary of the properties, stated on the posted body and the store   *)
(* rather than on the lookups of calculate_score.                          *)
(***************************************************************************)
\* a submission was graded and answered
Graded ==
    /\ pc = "done"
    /\ request # None
    /\ Value(request).route = "/submit/"
    /\ Value(response).status = 200

\* the question rows of the store, in retrieval order
Questions == store.questions

\* the QuizResult returned
Result == Value(response).body

\* the answers posted
Submitted == Value(request).json.answers

\* the submission has an answer for the question
Answered(question) ==
    \E i \in DOMAIN Submitted : Submitted[i].question_id = question.id

\* the choice id of the last answer that names the question, None without one
LastGiven(question) ==
    {Submitted[i].choice_id :
        i \in {k \in DOMAIN Submitted :
                  /\ Submitted[k].question_id = question.id
                  /\ \A l \in DOMAIN Submitted :
                        l > k => Submitted[l].question_id # question.id}}

\* the positions in the choices table of the question's choices, of its
\* flagged choices, and the first flagged choice in stored order
Own(question) ==
    {k \in DOMAIN store.choices : store.choices[k].question_id = question.id}

OwnIds(question) == {store.choices[k].id : k \in Own(question)}

Flagged(question) == {k \in Own(question) : store.choices[k].is_correct}

FirstFlagged(question) ==
    {store.choices[k] :
        k \in {f \in Flagged(question) : \A l \in Flagged(question) : f <= l}}

\* the choices of the question with one of the given ids
OwnChoices(question, ids) ==
    {store.choices[k] : k \in {o \in Own(question) : store.choices[o].id \in ids}}

\* the store with exactly the choices of the given ids flagged correct
Reflagged(db, ids) ==
    [db EXCEPT !.choices =
        [j \in DOMAIN db.choices |->
            [db.choices[j] EXCEPT !.is_correct = (db.choices[j].id \in ids)]]]

\* the posted body lacks the answers field or a field of an answer
Malformed(json) ==
    \/ "answers" \notin DOMAIN json
    \/ \E i \in DOMAIN json.answers :
          \/ "question_id" \notin DOMAIN json.answers[i]
          \/ "choice_id" \notin DOMAIN json.answers[i]

(***************************************************************************)
(* C1: total is the number of questions of the store, results has that     *)
(* length, and the i-th result carries the id and the text of the i-th     *)
(* question in retrieval order, whatever was submitted.                    *)
(***************************************************************************)
C1_OneResultPerQuestionInOrder ==
    Graded =>
        /\ Result.total = Len(Questions)
        /\ Len(Result.results) = Len(Questions)
        /\ \A i \in DOMAIN Questions :
              /\ Result.results[i].question_id = Questions[i].id
              /\ Result.results[i].question_text = Questions[i].text

\* two questions stored in descending id order, only one of them answered
C1_Witness ==
    /\ Graded
    /\ Len(Questions) = 2
    /\ Questions[1].id > Questions[2].id
    /\ Len(Submitted) = 1
    /\ Answered(Questions[2])
    /\ Len(Result.results) = 2

(***************************************************************************)
(* C2: score is the number of results that are correct, so it lies between *)
(* 0 and total; a question named several times counts at most once.        *)
(***************************************************************************)
C2_ScoreCountsCorrectResults ==
    Graded =>
        /\ Result.score =
              Cardinality({i \in DOMAIN Result.results : Result.results[i].is_correct})
        /\ 0 <= Result.score
        /\ Result.score <= Result.total

\* the same correct answer posted twice scores 1, beside a wrong result
C2_Witness ==
    /\ Graded
    /\ Len(Submitted) = 2
    /\ Submitted[1] = Submitted[2]
    /\ Len(Questions) = 2
    /\ Result.score = 1

(***************************************************************************)
(* C3: a result is correct exactly when the question is answered and the   *)
(* choice id kept for it (the last one given) is the id of the question's  *)
(* first flagged choice.                                                   *)
(***************************************************************************)
C3_CorrectIffKeptIsFirstFlagged ==
    Graded =>
        \A i \in DOMAIN Questions :
            /\ i \in DOMAIN Result.results
            /\ Result.results[i].is_correct <=>
                  /\ Answered(Questions[i])
                  /\ FirstFlagged(Questions[i]) # {}
                  /\ LastGiven(Questions[i]) = {c.id : c \in FirstFlagged(Questions[i])}

\* one question answered correctly, another left unanswered with no flagged
\* choice
C3_Witness ==
    /\ Graded
    /\ Len(Questions) = 2
    /\ Result.results[1].is_correct
    /\ ~Answered(Questions[2])
    /\ FirstFlagged(Questions[2]) = {}
    /\ ~Result.results[2].is_correct

(***************************************************************************)
(* C4: user_answer_text is the text of the question's own choice with the  *)
(* submitted id; with no answer, or an id that is not of a choice of this  *)
(* question, it is "Unanswered" and the result is not correct.             *)
(***************************************************************************)
C4_UserAnswerText ==
    Graded =>
        \A i \in DOMAIN Questions :
            /\ i \in DOMAIN Result.results
            /\ LET own == OwnChoices(Questions[i], LastGiven(Questions[i]))
               IN  IF own # {}
                   THEN \A c \in own : Result.results[i].user_answer_text = c.text
                   ELSE /\ Result.results[i].user_answer_text = "Unanswered"
                        /\ ~Result.results[i].is_correct

\* one question answered with a choice of the other question, the other with
\* a choice of its own
C4_Witness ==
    /\ Graded
    /\ Len(Questions) = 2
    /\ Answered(Questions[1])
    /\ LastGiven(Questions[1]) \subseteq OwnIds(Questions[2])
    /\ Result.results[1].user_answer_text = "Unanswered"
    /\ Answered(Questions[2])
    /\ Result.results[2].user_answer_text # "Unanswered"

(***************************************************************************)
(* C5: correct_answer_text is the text of the first flagged choice of the  *)
(* question; a question with no flagged choice has the empty string and   *)
(* is never graded correct.                                                *)
(***************************************************************************)
C5_CorrectAnswerText ==
    Graded =>
        \A i \in DOMAIN Questions :
            /\ i \in DOMAIN Result.results
            /\ IF FirstFlagged(Questions[i]) # {}
               THEN \A c \in FirstFlagged(Questions[i]) :
                       Result.results[i].correct_answer_text = c.text
               ELSE /\ Result.results[i].correct_answer_text = ""
                    /\ ~Result.results[i].is_correct

\* a question with two flagged choices, the first of them in stored order with
\* the higher id, and a question with no flagged choice answered with its own
\* choice
C5_Witness ==
    /\ Graded
    /\ Len(Questions) = 2
    /\ Cardinality(Flagged(Questions[1])) = 2
    /\ \A c \in FirstFlagged(Questions[1]) :
          /\ Result.results[1].correct_answer_text = c.text
          /\ \E k \in Flagged(Questions[1]) : store.choices[k].id < c.id
    /\ Flagged(Questions[2]) = {}
    /\ OwnChoices(Questions[2], LastGiven(Questions[2])) # {}
    /\ Result.results[2].correct_answer_text = ""

(***************************************************************************)
(* C6: the empty submission scores 0 of |Q|, every result is "Unanswered"  *)
(* and not correct, and correct_answer_text is still filled in.            *)
(***************************************************************************)
C6_EmptySubmission ==
    (Graded /\ Submitted = <<>>) =>
        /\ Result.score = 0
        /\ Result.total = Len(Questions)
        /\ \A i \in DOMAIN Questions :
              /\ i \in DOMAIN Result.results
              /\ Result.results[i].user_answer_text = "Unanswered"
              /\ ~Result.results[i].is_correct
              /\ \A c \in FirstFlagged(Questions[i]) :
                    Result.results[i].correct_answer_text = c.text

\* the empty submission against two questions, one of them with a flagged
\* choice
C6_Witness ==
    /\ Graded
    /\ Submitted = <<>>
    /\ Len(Questions) = 2
    /\ FirstFlagged(Questions[1]) # {}
    /\ Result.results[1].correct_answer_text # ""

(***************************************************************************)
(* C7: against the empty store every submission, empty or not, is graded   *)
(* score 0, total 0, no results.                                           *)
(***************************************************************************)
C7_EmptyStore ==
    (Graded /\ Questions = <<>>) =>
        Result = [score |-> 0, total |-> 0, results |-> <<>>]

\* a submission of two answers graded against the empty store
C7_Witness ==
    /\ Graded
    /\ Questions = <<>>
    /\ Len(Submitted) = 2

(***************************************************************************)
(* C8: the list of questions shows of every choice of a question, in       *)
(* stored order, its id and text and nothing else, and is the same         *)
(* whichever choices the store flags.                                      *)
(***************************************************************************)
Listed ==
    /\ pc = "done"
    /\ request # None
    /\ Value(request).route = "/questions/"
    /\ Value(response).status = 200

C8_ListHidesFlags ==
    Listed =>
        LET body == Value(response).body
        IN  /\ Len(body) = Len(Questions)
            /\ \A i \in DOMAIN body :
                  /\ Len(body[i].choices) = Cardinality(Own(Questions[i]))
                  /\ \A j \in DOMAIN body[i].choices :
                        /\ DOMAIN body[i].choices[j] = {"id", "text"}
                        /\ \E k \in Own(Questions[i]) :
                              /\ Cardinality({o \in Own(Questions[i]) : o <= k}) = j
                              /\ body[i].choices[j].id = store.choices[k].id
                              /\ body[i].choices[j].text = store.choices[k].text
            /\ \A ids \in SUBSET ChoiceIds :
                  QuestionListSchema(get_questions(Reflagged(store, ids))) = body

\* a listed store with a flagged and an unflagged choice
C8_Witness ==
    /\ Listed
    /\ Value(response).status = 200
    /\ \E i \in DOMAIN Questions :
          /\ Flagged(Questions[i]) # {}
          /\ Flagged(Questions[i]) # Own(Questions[i])

(***************************************************************************)
(* C9: a body without answers, or with an answer that lacks question_id or *)
(* choice_id, is answered 422; calculate_score is not called for it and    *)
(* the store is not queried.                                               *)
(***************************************************************************)
C9_MalformedRejected ==
    (/\ request # None
     /\ Value(request).route = "/submit/"
     /\ Malformed(Value(request).json)) =>
        /\ pc = "done"
        /\ response # None
        /\ Value(response).status = 422
        /\ calls = 0
        /\ reads = 0

\* a body whose second answer lacks choice_id, after a complete first answer
C9_Witness ==
    /\ request # None
    /\ Value(request).route = "/submit/"
    /\ "answers" \in DOMAIN Value(request).json
    /\ Len(Value(request).json.answers) = 2
    /\ DOMAIN Value(request).json.answers[1] = {"question_id", "choice_id"}
    /\ DOMAIN Value(request).json.answers[2] = {"question_id"}
    /\ Value(response).status = 422
    /\ Questions # <<>>

(***************************************************************************)
(* C10: a second grading of the same submission against the same snapshot  *)
(* returns the QuizResult of the first.                                    *)
(***************************************************************************)
C10_SameInputSameResult ==
    (/\ Graded
     /\ attempt = 2
     /\ previous # None
     /\ Value(previous).snapshot = all_questions) =>
        Result = Value(previous).result

\* a repeated submission that scores on one of two questions
C10_Witness ==
    /\ Graded
    /\ attempt = 2
    /\ previous # None
    /\ Value(previous).snapshot = all_questions
    /\ Len(Questions) = 2
    /\ Result.score = 1
(***************************************************************************)
(* C11: the steps of a grading call, the query and the grading, leave the  *)
(* questions table and the choices table as they were, rows, order, texts  *)
(* and flags, and grading leaves the posted submission as it was.          *)
(***************************************************************************)
C11_GradingLeavesStoreAndSubmission ==
    [][ /\ (pc' = "grading" /\ pc # "grading") => store' = store
        /\ (pc = "grading" /\ pc' # "grading") =>
              /\ store' = store
              /\ request' = request ]_vars

\* a non-empty submission graded over a store with questions and choices that
\* no seeding has touched
C11_Witness ==
    /\ Graded
    /\ seeding = [pc |-> "idle", runs |-> 0]
    /\ Len(store.questions) > 0
    /\ Len(store.choices) > 0
    /\ Len(Submitted) > 0
    /\ store_read = Some(store)

(***************************************************************************)
(* C12: a submission that passes validation and whose query succeeded is   *)
(* answered 200 with a QuizResult, whatever the store and the answers      *)
(* are; no request is ever answered 400.                                   *)
(***************************************************************************)
C12_GradingNeverFails ==
    /\ ( /\ pc = "done"
         /\ request # None
         /\ Value(request).route = "/submit/"
         /\ ValidAnswerPayload(Value(request).json)
         /\ ~db_error )
       => /\ Value(response).status = 200
          /\ DOMAIN Result = {"score", "total", "results"}
    /\ response # None => Value(response).status # 400

\* graded: a question without choices, a question with choices of which none
\* is flagged, answered twice, once with a choice id the store does not have
C12_Witness ==
    /\ Graded
    /\ \E i \in DOMAIN Questions : Own(Questions[i]) = {}
    /\ \E i \in DOMAIN Questions :
          /\ Own(Questions[i]) # {}
          /\ Flagged(Questions[i]) = {}
          /\ Len(Submitted) = 2
          /\ \A k \in DOMAIN Submitted : Submitted[k].question_id = Questions[i].id
          /\ \E k \in DOMAIN Submitted :
                \A c \in DOMAIN store.choices :
                    store.choices[c].id # Submitted[k].choice_id

(***************************************************************************)
(* C13: two submissions graded over the same store at the same time, in    *)
(* whatever order their steps come: each gets the QuizResult it would get  *)
(* alone, computed from the store and its own answers only.                *)
(***************************************************************************)
\* what a call returns that nothing runs beside
Alone(db, json) ==
    LET questions == get_questions(db)
        graded == GradeLoop(questions, UserAnswersMap(AnswerPayload(json).answers),
                            AnswerKey(questions), 0, Len(questions))
    IN  QuizResult(graded.score, questions, graded.detailed_results)

PeerGraded == peer.pc = "done" /\ Value(peer.response).status = 200

C13_ConcurrentCallsIndependent ==
    /\ (Graded /\ peer.pc # "idle") => Result = Alone(store, Value(request).json)
    /\ (PeerGraded /\ pc # "idle") =>
          Value(peer.response).body = Alone(store, Value(peer.json))

\* both calls graded over two questions, with different answers and different
\* scores
C13_Witness ==
    /\ Graded
    /\ PeerGraded
    /\ Value(peer.json) # Value(request).json
    /\ Result.score = 1
    /\ Value(peer.response).body.score = 0
    /\ Result.total = 2

(***************************************************************************)
(* C14: when every question has a flagged choice and the answer kept for   *)
(* every question, the last one that names it, is the id of its first      *)
(* flagged choice, then score = total, every result is correct and shows   *)
(* the same text as the user's answer and as the correct answer.           *)
(***************************************************************************)
FirstFlaggedId(question) == {c.id : c \in FirstFlagged(question)}

AllRight ==
    /\ Result.score = Result.total
    /\ \A i \in DOMAIN Result.results :
          /\ Result.results[i].is_correct
          /\ Result.results[i].user_answer_text = Result.results[i].correct_answer_text

C14_AllRightAnswers ==
    ( /\ Graded
      /\ \A i \in DOMAIN Questions :
            /\ Flagged(Questions[i]) # {}
            /\ LastGiven(Questions[i]) = FirstFlaggedId(Questions[i]) )
    => AllRight

\* two questions, both answered with their first flagged choice
C14_Witness ==
    /\ Graded
    /\ Len(Questions) = 2
    /\ \A i \in DOMAIN Questions :
          /\ Flagged(Questions[i]) # {}
          /\ LastGiven(Questions[i]) = FirstFlaggedId(Questions[i])
    /\ Result.score = 2

\* C14 as stated: it is enough that some answer of the submission names the
\* first flagged choice of each question
C14_AsStated ==
    ( /\ Graded
      /\ \A i \in DOMAIN Questions :
            /\ Flagged(Questions[i]) # {}
            /\ \E k \in DOMAIN Submitted :
                  /\ Submitted[k].question_id = Questions[i].id
                  /\ Submitted[k].choice_id \in FirstFlaggedId(Questions[i]) )
    => AllRight

(***************************************************************************)
(* C16: a question named by several answers gets one result, decided by    *)
(* the last of them alone: correct iff that answer gives the first flagged *)
(* choice, shown with the text of the choice it gives, and the whole       *)
(* QuizResult is the one of the submission without the earlier answers.    *)
(***************************************************************************)
\* the positions of the answers that name the question
Naming(question) ==
    {k \in DOMAIN Submitted : Submitted[k].question_id = question.id}

\* the answers from position i on that no later answer overrides
RECURSIVE LastOnlyFrom(_, _)
LastOnlyFrom(answers, i) ==
    IF i > Len(answers) THEN <<>>
    ELSE IF \E l \in (i + 1)..Len(answers) :
                answers[l].question_id = answers[i].question_id
         THEN LastOnlyFrom(answers, i + 1)
         ELSE <<answers[i]>> \o LastOnlyFrom(answers, i + 1)

C16_LastDuplicateWins ==
    Graded =>
        /\ \A i \in DOMAIN Questions :
              Cardinality(Naming(Questions[i])) > 1 =>
                /\ Cardinality({r \in DOMAIN Result.results :
                       Result.results[r].question_id = Questions[i].id}) = 1
                /\ i \in DOMAIN Result.results
                /\ Result.results[i].is_correct
                      <=> /\ Flagged(Questions[i]) # {}
                          /\ LastGiven(Questions[i]) = FirstFlaggedId(Questions[i])
                /\ \/ /\ OwnChoices(Questions[i], LastGiven(Questions[i])) = {}
                      /\ Result.results[i].user_answer_text = "Unanswered"
                   \/ \E c \in OwnChoices(Questions[i], LastGiven(Questions[i])) :
                         Result.results[i].user_answer_text = c.text
        /\ Result = Alone(store, [answers |-> LastOnlyFrom(Submitted, 1)])

\* one question answered twice: first with its flagged choice, then with
\* another of its choices
C16_Witness ==
    /\ Graded
    /\ Len(Submitted) = 2
    /\ \E i \in DOMAIN Questions :
          /\ Naming(Questions[i]) = {1, 2}
          /\ Submitted[1].choice_id \in FirstFlaggedId(Questions[i])
          /\ Submitted[2].choice_id # Submitted[1].choice_id
          /\ Submitted[2].choice_id \in OwnIds(Questions[i])
          /\ ~Result.results[i].is_correct

(***************************************************************************)
(* C17: of several flagged choices of a question the first in stored order *)
(* is the key: its text is the correct_answer_text, answering with it is   *)
(* correct, answering with a later flagged choice is not, and the score    *)
(* counts the questions answered with their first flagged choice only.     *)
(***************************************************************************)
\* the ids of the flagged choices of the question after the first
LaterFlaggedIds(question) ==
    {store.choices[k].id : k \in Flagged(question)} \ FirstFlaggedId(question)

C17_FirstFlaggedIsTheKey ==
    Graded =>
        /\ \A i \in DOMAIN Questions :
              Cardinality(Flagged(Questions[i])) > 1 =>
                /\ i \in DOMAIN Result.results
                /\ \A c \in FirstFlagged(Questions[i]) :
                      Result.results[i].correct_answer_text = c.text
                /\ LastGiven(Questions[i]) = FirstFlaggedId(Questions[i])
                      => Result.results[i].is_correct
                /\ LastGiven(Questions[i]) \subseteq LaterFlaggedIds(Questions[i])
                      => ~Result.results[i].is_correct
        /\ Result.score =
              Cardinality({i \in DOMAIN Questions :
                             /\ Flagged(Questions[i]) # {}
                             /\ LastGiven(Questions[i]) = FirstFlaggedId(Questions[i])})

\* a question with two flagged choices answered with the second of them,
\* another question answered with its only flagged choice
C17_Witness ==
    /\ Graded
    /\ Len(Questions) = 2
    /\ \E i \in DOMAIN Questions :
          /\ Cardinality(Flagged(Questions[i])) = 2
          /\ LastGiven(Questions[i]) # {}
          /\ LastGiven(Questions[i]) \subseteq LaterFlaggedIds(Questions[i])
          /\ ~Result.results[i].is_correct
    /\ Result.score = 1

(***************************************************************************)
(* C15: when the query of a submission raises, nothing is graded and the   *)
(* request is answered with a server error that carries no QuizResult; a   *)
(* QuizResult that is returned has a result for every question the query   *)
(* found in the store.                                                     *)
(***************************************************************************)
C15_FailedQueryFailsTheRequest ==
    /\ pc = "grading" => ~db_error
    /\ (pc = "done" /\ db_error) =>
          /\ Value(response).status = 500
          /\ DOMAIN Value(response).body = {"detail"}
    /\ Graded =>
          /\ ~db_error
          /\ Result.total = Len(Value(store_read).questions)
          /\ Len(Result.results) = Len(Value(store_read).questions)

\* a valid submission over a store with two questions whose query raised
C15_Witness ==
    /\ pc = "done"
    /\ db_error
    /\ Value(request).route = "/submit/"
    /\ Len(Value(request).json.answers) > 0
    /\ Len(Questions) = 2
    /\ Value(response).status = 500

(***************************************************************************)
(* C18: a graded call has queried the store once, and its QuizResult is    *)
(* the one of the tables as that query found them: total, the results in   *)
(* order and the score all come from those rows, whatever seed_database    *)
(* has deleted or inserted since.                                          *)
(***************************************************************************)
C18_OneSnapshot ==
    Graded =>
        /\ reads = 1
        /\ store_read # None
        /\ Result = Alone(Value(store_read), Value(request).json)
        /\ Result.total = Len(Value(store_read).questions)
        /\ \A i \in DOMAIN Value(store_read).questions :
              /\ i \in DOMAIN Result.results
              /\ Result.results[i].question_id = Value(store_read).questions[i].id
              /\ Result.results[i].question_text = Value(store_read).questions[i].text

\* graded over the two questions the query found, one of them answered
\* right, while the store now holds the five seed questions
C18_Witness ==
    /\ Graded
    /\ Len(Value(store_read).questions) = 2
    /\ Len(store.questions) = Len(questions_data)
    /\ seeding.runs = 1
    /\ Result.total = 2
    /\ Result.score = 1

(***************************************************************************)
(* C19: once seed_database has run to its end, once or twice and whatever  *)
(* the tables held, the store has the five questions of questions_data in  *)
(* order and nothing else, each with its three choices in order, one of    *)
(* them flagged; a second run leaves the very same tables.                 *)
(***************************************************************************)
Seeded == seeding.pc = "idle" /\ seeding.runs > 0

\* the rows of the choices table that belong to the question, in stored order
OwnRows(question) ==
    SelectSeq(store.choices, LAMBDA c : c.question_id = question.id)

C19_SeedReplacesEverything ==
    Seeded =>
        /\ Len(store.questions) = 5
        /\ Len(store.choices) = 15
        /\ \A i \in DOMAIN store.questions :
              /\ i \in DOMAIN questions_data
              /\ store.questions[i].text = questions_data[i].text
              /\ Len(OwnRows(store.questions[i])) = 3
              /\ \A k \in DOMAIN OwnRows(store.questions[i]) :
                    /\ k \in DOMAIN questions_data[i].choices
                    /\ OwnRows(store.questions[i])[k].text
                          = questions_data[i].choices[k].text
                    /\ OwnRows(store.questions[i])[k].is_correct
                          = questions_data[i].choices[k].is_correct
              /\ Cardinality(Flagged(store.questions[i])) = 1
        /\ store = QuestionsAdded([questions |-> <<>>, choices |-> <<>>],
                                  Len(questions_data))

\* seeded twice over a store in which a request had found two questions
C19_Witness ==
    /\ Seeded
    /\ seeding.runs = 2
    /\ store_read # None
    /\ Len(Value(store_read).questions) = 2
    /\ Len(Value(store_read).choices) = 3
    /\ Len(store.questions) = 5

(***************************************************************************)
(* C20: an answer whose question_id is the id of no question of the store  *)
(* gets no result and changes neither total nor score: the QuizResult is   *)
(* the one of the submission without such answers.                         *)
(***************************************************************************)
\* the answer names a question of the store
Known(answer) ==
    \E i \in DOMAIN Questions : Questions[i].id = answer.question_id

C20_UnknownQuestionsIgnored ==
    Graded =>
        /\ \A r \in DOMAIN Result.results :
              \E i \in DOMAIN Questions :
                  Questions[i].id = Result.results[r].question_id
        /\ Result.total = Len(Questions)
        /\ Result.score <= Len(Questions)
        /\ Result = Alone(store, [answers |-> SelectSeq(Submitted, Known)])

\* the only question of the store answered right, together with an answer
\* for a question the store does not have
C20_Witness ==
    /\ Graded
    /\ Len(Questions) = 1
    /\ Len(Submitted) = 2
    /\ ~Known(Submitted[1])
    /\ Known(Submitted[2])
    /\ Result.score = 1
    /\ Result.total = 1

(***************************************************************************)
(* C21: a result marked correct belongs to a question whose kept answer,   *)
(* the last that names it, gives the id of one of the question's own       *)
(* choices, namely its first flagged one, and the result shows the text of *)
(* that choice both as the user's answer and as the correct answer.        *)
(***************************************************************************)
C21_CorrectMeansOwnFirstFlagged ==
    Graded =>
        \A i \in DOMAIN Result.results :
            Result.results[i].is_correct =>
                /\ i \in DOMAIN Questions
                /\ LastGiven(Questions[i]) # {}
                /\ LastGiven(Questions[i]) \subseteq OwnIds(Questions[i])
                /\ LastGiven(Questions[i]) = FirstFlaggedId(Questions[i])
                /\ Result.results[i].user_answer_text
                      = Result.results[i].correct_answer_text
                /\ \A c \in FirstFlagged(Questions[i]) :
                      Result.results[i].correct_answer_text = c.text

\* two questions answered with the same choice id, the flagged choice of the
\* first: correct for the first, not for the second, which does not own it
C21_Witness ==
    /\ Graded
    /\ Len(Questions) = 2
    /\ Len(Submitted) = 2
    /\ Submitted[1].choice_id = Submitted[2].choice_id
    /\ Submitted[1].question_id # Submitted[2].question_id
    /\ \E i \in DOMAIN Questions : \E j \in DOMAIN Questions :
          /\ Result.results[i].is_correct
          /\ ~Result.results[j].is_correct
          /\ Flagged(Questions[j]) # {}
          /\ LastGiven(Questions[j]) \cap OwnIds(Questions[j]) = {}

====
